---------------------------- MODULE Spec2Model ----------------------------
(***************************************************************************)
(* A model of src/main.py: the percolation grid (PercolationSystem), its   *)
(* breadth-first connectivity check, the controller feedback               *)
(* (ControllerManager) and the frame loop of main() that drives them.      *)
(*                                                                         *)
(* Three state machines share the variables below.                         *)
(*   Spec      a PercolationSystem of any small size under an arbitrary    *)
(*             caller: update_grid(p) and check_percolation() in any       *)
(*             order, the check taken one statement group at a time.       *)
(*   FairSpec  check_percolation called again and again on a grid that     *)
(*             update_grid produced, its steps weakly fair (a call that    *)
(*             has started keeps running: the program is single-threaded   *)
(*             and nothing interrupts the loop).                           *)
(*   MainSpec  main(): controller start-up, the error loop, and the frame  *)
(*             loop, one action per group of statements of a frame.        *)
(*                                                                         *)
(* Python's floats are modelled as a binary floating-point format of       *)
(* reduced size: a real number is counted in units of 2^-FRAC_BITS, a      *)
(* float is a count with at most MANT_BITS significant bits, and every     *)
(* arithmetic operation rounds its exact result to the nearest float,      *)
(* ties to even, as IEEE 754 doubles do with 53 bits.                      *)
(***************************************************************************)
EXTENDS Integers, Sequences, FiniteSets

(* ---------------------------------------------------------------- bounds *)
\* Largest lattice the caller of Spec constructs.
MaxWidth == 3
MaxHeight == 3
MaxCells == 9
\* The float format: significant bits, and bits after the binary point.
MANT_BITS == 3
FRAC_BITS == 4
\* main.py's lattice is 100 x 100 (GRID_WIDTH, GRID_HEIGHT); MainSpec runs a small one.
GRID_WIDTH == 2
GRID_HEIGHT == 1
\* main.py's ADJUST_SPEED is 0.001; here it is this many units of 2^-FRAC_BITS.
ADJUST_SPEED == 2
\* Frames of the main loop that MainSpec follows.
MaxFrames == 3

(* ------------------------------------------------------------- constants *)
EMPTY == 0
OCCUPIED == 1
PERCOLATED == 2
STICK_DEADZONE == 30
\* 0.2 s, in clock ticks of 0.2 s
KEY_COOLDOWN == 1

VARIABLES
    \* PercolationSystem
    width, height,      \* .width, .height (0: not constructed)
    grid,               \* .grid: [Cells -> {EMPTY, OCCUPIED, PERCOLATED}]
    call,               \* position inside check_percolation: "none", "seed", "bfs"
    q, head, percolates,\* locals of check_percolation
    \* main (in Spec: the caller)
    p,                  \* occupation probability
    is_percolated,      \* the last return value of check_percolation
    pc,                 \* position in main()
    running,
    lower_bound, upper_bound, critical_point,
    selected_bound_idx,
    key_cooldown_time,  \* measured from the latest now_time; below 0: in the past
    last_cross_state,
    ds,                 \* the controller: what was last written to it
    screen,             \* what the window shows
    \* history variables (observers, never read by the program's actions)
    frames,             \* iterations of the frame loop begun
    updated,            \* update_grid has run since construction
    checks,             \* check_percolation calls completed since the last update (capped at 2)
    grid_in             \* the grid at entry of the latest check_percolation call

sysvars == <<width, height, grid, call, q, head, percolates>>

mainvars == <<pc, running, lower_bound, upper_bound, critical_point, selected_bound_idx,
              key_cooldown_time, last_cross_state, ds, screen, frames>>

hist == <<updated, checks, grid_in>>

vars == <<sysvars, p, is_percolated, mainvars, hist>>

(* ----------------------------------------------------------------- floats *)
ONE == 2 ^ FRAC_BITS

Max(a, b) == IF a > b THEN a ELSE b
Min(a, b) == IF a < b THEN a ELSE b

\* The distance between neighbouring floats at magnitude n >= 0.
RECURSIVE Ulp(_)
Ulp(n) == IF n < 2 ^ MANT_BITS THEN 1 ELSE 2 * Ulp(n \div 2)

\* The float nearest to num / den (num >= 0, den > 0), ties to the even mantissa.
RoundPos(num, den) ==
    LET fl == num \div den
        s == Ulp(fl)
        lo == (fl \div s) * s
        hi == lo + s
    IN IF 2 * num < (lo + hi) * den THEN lo
       ELSE IF 2 * num > (lo + hi) * den THEN hi
       ELSE IF (lo \div s) % 2 = 0 THEN lo ELSE hi

Round(num, den) == IF num < 0 THEN 0 - RoundPos(0 - num, den) ELSE RoundPos(num, den)

FAdd(a, b) == Round(a + b, 1)
FSub(a, b) == Round(a - b, 1)
FMul(a, b) == Round(a * b, ONE)
FDiv(a, b) == Round(a * ONE, b)
\* n / d for Python ints n and a float literal d that is a whole number
FromRatio(n, d) == Round(n * ONE, d)
\* int(255 * x), x >= 0
Int255(x) == Round(255 * x, 1) \div ONE

(* ------------------------------------------------------ PercolationSystem *)
Cells(w, h) == (0 .. w - 1) \X (0 .. h - 1)

\* __init__: np.zeros((width, height))
Zeros(w, h) == [c \in Cells(w, h) |-> EMPTY]

\* np.random.rand: uniform draws in [0, 1). Only the comparison r < p is ever
\* made of a draw; the smallest draw, 0, and the largest float below 1.0
\* produce both of its outcomes for every p for which both are possible.
RandVals == {0, ONE - Ulp(ONE - 1)}

\* np.where(random_grid < p, OCCUPIED, EMPTY), one cell
BernoulliLe(r, pp) == IF r <= pp THEN OCCUPIED ELSE EMPTY
BernoulliSwapped(r, pp) == IF pp < r THEN OCCUPIED ELSE EMPTY
Bernoulli(r, pp) == IF r < pp THEN OCCUPIED ELSE EMPTY

update_grid(random_grid, pp) == [c \in DOMAIN random_grid |-> Bernoulli(random_grid[c], pp)]

\* self.grid[self.grid == PERCOLATED] = OCCUPIED
ResetKeep(g) == g
ResetPercolated(g) == [c \in DOMAIN g |-> IF g[c] = PERCOLATED THEN OCCUPIED ELSE g[c]]

\* (0, center_y), center_y = self.height // 2
SeedCell(h) == <<0, h \div 2>>

\* self.grid[0, center_y] = PERCOLATED
MarkSeedIfOccupied(g, h) == IF g[SeedCell(h)] = OCCUPIED THEN [g EXCEPT ![SeedCell(h)] = PERCOLATED] ELSE g
MarkSeedForgotten(g, h) == g
MarkSeed(g, h) == [g EXCEPT ![SeedCell(h)] = PERCOLATED]

\* for dx, dy in [(0, 1), (0, -1), (1, 0), (-1, 0)]
DirsWithDiagonal == <<<<0, 1>>, <<0, -1>>, <<1, 0>>, <<-1, 0>>, <<1, 1>>>>
Dirs == <<<<0, 1>>, <<0, -1>>, <<1, 0>>, <<-1, 0>>>>

\* 0 <= nx < self.width and 0 <= ny < self.height
InGrid(nx, ny, w, h) == 0 <= nx /\ nx < w /\ 0 <= ny /\ ny < h

\* if x == self.width - 1
IsRightEdgeOffByOne(x, w) == x = w
IsRightEdge(x, w) == x = w - 1

\* while head < len(q)
LoopCondOffByOne(hd, qq) == hd + 1 < Len(qq)
LoopCond(hd, qq) == hd < Len(qq)

\* The for loop over the four neighbours of (x, y), from direction i on: a
\* neighbour inside the grid that is OCCUPIED is marked and appended.
RECURSIVE Neighbours(_, _, _, _, _, _, _)
Neighbours(g, qq, x, y, w, h, i) ==
    IF i > Len(Dirs) THEN [grid |-> g, q |-> qq]
    ELSE LET nx == x + Dirs[i][1]
             ny == y + Dirs[i][2]
         IN IF InGrid(nx, ny, w, h) /\ g[<<nx, ny>>] = OCCUPIED
            THEN Neighbours([g EXCEPT ![<<nx, ny>>] = PERCOLATED],
                            Append(qq, <<nx, ny>>), x, y, w, h, i + 1)
            ELSE Neighbours(g, qq, x, y, w, h, i + 1)

\* One iteration of the while loop, on the call's state s = [grid, q, head, percolates].
BfsIteration(s, w, h) ==
    LET x == s.q[s.head + 1][1]
        y == s.q[s.head + 1][2]
        n == Neighbours(s.grid, s.q, x, y, w, h, 1)
    IN [grid |-> n.grid, q |-> n.q, head |-> s.head + 1,
        percolates |-> (s.percolates \/ IsRightEdge(x, w))]

\* The statements before the loop: reset, seed, queue.
BfsStart(g, h) ==
    [grid |-> MarkSeed(ResetPercolated(g), h), q |-> <<SeedCell(h)>>,
     head |-> 0, percolates |-> FALSE]

\* The loop run until the queue is exhausted.
RECURSIVE BfsRun(_, _, _)
BfsRun(s, w, h) == IF LoopCond(s.head, s.q) THEN BfsRun(BfsIteration(s, w, h), w, h) ELSE s

\* check_percolation as one call: the marked grid and the returned flag.
check_percolation(g, w, h) == BfsRun(BfsStart(g, h), w, h)

(* ------------------------------------------------------ ControllerManager *)
NoDevice == [state |-> "none", motor |-> 0, force |-> 0, light |-> <<0, 0, 0>>]

\* (p / critical_point) ** 4
Pow4(x) == Round(x * x * x * x, ONE * ONE * ONE)

\* set_percolation_feedback: the right motor, the R2 trigger force, the light bar
set_percolation_feedback(dev, is_perc, pp, lo, up, crit) ==
    IF dev.state # "open" THEN dev
    ELSE LET motor == IF is_perc THEN 200 ELSE 0
             force == IF pp < crit
                      THEN Int255(IF crit > 0 THEN Pow4(FDiv(pp, crit)) ELSE ONE)
                      ELSE 255
             span == FSub(up, lo)
             raw == IF span > 0 THEN FDiv(FSub(pp, lo), span) ELSE 0
             p_normalized == Max(0, Min(ONE, raw))
             light == IF is_perc THEN <<255, 255, 255>>
                      ELSE <<Int255(p_normalized), 0, Int255(FSub(ONE, p_normalized))>>
         IN [state |-> "open", motor |-> motor, force |-> force, light |-> light]

(* ------------------------------------------------------------------ main *)
\* a rising edge of the cross button sets the selected value to p
CrossPress(b, sel, pp) ==
    IF sel = 0
    THEN [b EXCEPT !.lower = pp, !.upper = IF pp > b.upper THEN pp ELSE b.upper]
    ELSE IF sel = 1
    THEN [b EXCEPT !.upper = pp, !.lower = IF pp < b.lower THEN pp ELSE b.lower]
    ELSE [b EXCEPT !.critical = pp]

\* change = ADJUST_SPEED * (rx_value / 128.0), or / 127.0 to the right
Change(rx) ==
    IF rx < 0 - STICK_DEADZONE THEN FMul(ADJUST_SPEED, FromRatio(rx, 128))
    ELSE IF rx > STICK_DEADZONE THEN FMul(ADJUST_SPEED, FromRatio(rx, 127))
    ELSE 0

\* max(0.0, min(lower_bound, upper_bound)) and its two siblings
ClampLowerMissing(x, up) == x
ClampLower(x, up) == Max(0, Min(x, up))
ClampUpper(x, lo) == Max(lo, Min(ONE, x))
ClampCritical(x) == Max(0, Min(ONE, x))

\* the right stick moves the selected value
StickAdjust(b, sel, change) ==
    IF change = 0 THEN b
    ELSE IF sel = 0 THEN [b EXCEPT !.lower = ClampLower(FAdd(b.lower, change), b.upper)]
    ELSE IF sel = 1 THEN [b EXCEPT !.upper = ClampUpper(FAdd(b.upper, change), b.lower)]
    ELSE [b EXCEPT !.critical = ClampCritical(FAdd(b.critical, change))]

\* p = lower_bound + (r2_value / 255.0) * (upper_bound - lower_bound)
ComputeP(b, r2) == FAdd(b.lower, FMul(FromRatio(r2, 255), FSub(b.upper, b.lower)))

\* where main() goes when the error loop ends: pygame.quit(); return
AfterErrorLoopNoReturn == "construct"
AfterErrorLoop == "error_exit"

(* ----------------------------------------------------------------- Spec *)
Dims == {d \in (1 .. MaxWidth) \X (1 .. MaxHeight) : d[1] * d[2] <= MaxCells}

NoGrid == <<>>

\* The probabilities the caller hands to update_grid: 0.0, 0.5 and 1.0.
PValues == {0, ONE \div 2, ONE}

\* main()'s own variables before main() has assigned them
MainUnset ==
    /\ running = FALSE
    /\ lower_bound = 0 /\ upper_bound = 0 /\ critical_point = 0
    /\ selected_bound_idx = 0
    /\ key_cooldown_time = 0
    /\ last_cross_state = FALSE
    /\ ds = NoDevice
    /\ screen = "blank"
    /\ frames = 0

Init ==
    /\ \E d \in Dims : width = d[1] /\ height = d[2] /\ grid = Zeros(d[1], d[2])
    /\ call = "none"
    /\ q = <<>> /\ head = 0 /\ percolates = FALSE
    /\ p = 0
    /\ is_percolated = FALSE
    /\ pc = "caller"
    /\ MainUnset
    /\ updated = FALSE /\ checks = 0
    /\ grid_in = NoGrid

\* perc_system.update_grid(p), for a p in [0, 1] and any draw
UpdateGrid ==
    /\ call = "none"
    /\ \E pp \in PValues, random_grid \in [Cells(width, height) -> RandVals] :
          /\ p' = pp
          /\ grid' = update_grid(random_grid, pp)
    /\ updated' = TRUE /\ checks' = 0
    /\ grid_in' = NoGrid
    /\ UNCHANGED <<width, height, call, q, head, percolates, is_percolated>>
    /\ UNCHANGED mainvars

\* check_percolation is entered; its first statement resets the old marking
CheckReset ==
    /\ call = "none"
    /\ grid' = ResetPercolated(grid)
    /\ call' = "seed"
    /\ grid_in' = grid
    /\ UNCHANGED <<width, height, q, head, percolates, p, is_percolated, updated, checks>>
    /\ UNCHANGED mainvars

\* q = []; the seed is marked and queued; head = 0; percolates = False
CheckSeed ==
    /\ call = "seed"
    /\ grid' = MarkSeed(grid, height)
    /\ q' = <<SeedCell(height)>>
    /\ head' = 0
    /\ percolates' = FALSE
    /\ call' = "bfs"
    /\ UNCHANGED <<width, height, p, is_percolated>>
    /\ UNCHANGED <<mainvars, hist>>

\* one iteration of the while loop
BfsLoop ==
    /\ call = "bfs"
    /\ LoopCond(head, q)
    /\ LET s == BfsIteration([grid |-> grid, q |-> q, head |-> head,
                              percolates |-> percolates], width, height)
       IN /\ grid' = s.grid
          /\ q' = s.q
          /\ head' = s.head
          /\ percolates' = s.percolates
    /\ UNCHANGED <<width, height, call, p, is_percolated>>
    /\ UNCHANGED <<mainvars, hist>>

\* the loop ends; return percolates (the call's locals are gone with it)
CheckReturn ==
    /\ call = "bfs"
    /\ ~LoopCond(head, q)
    /\ is_percolated' = percolates
    /\ call' = "none"
    /\ checks' = IF checks < 2 THEN checks + 1 ELSE 2
    /\ q' = <<>> /\ head' = 0 /\ percolates' = FALSE
    /\ UNCHANGED <<width, height, grid, p, updated, grid_in>>
    /\ UNCHANGED mainvars

Next == UpdateGrid \/ CheckReset \/ CheckSeed \/ BfsLoop \/ CheckReturn

Spec == Init /\ [][Next]_vars

(* ------------------------------------------------------------- FairSpec *)
\* a PercolationSystem on which update_grid has run once
CheckInit ==
    /\ \E d \in Dims, pp \in PValues :
          \E random_grid \in [Cells(d[1], d[2]) -> RandVals] :
              /\ width = d[1] /\ height = d[2]
              /\ p = pp
              /\ grid = update_grid(random_grid, pp)
    /\ call = "none"
    /\ q = <<>> /\ head = 0 /\ percolates = FALSE
    /\ is_percolated = FALSE
    /\ pc = "caller"
    /\ MainUnset
    /\ updated = TRUE /\ checks = 0
    /\ grid_in = NoGrid

CheckNext == CheckReset \/ CheckSeed \/ BfsLoop \/ CheckReturn

FairSpec ==
    /\ CheckInit /\ [][CheckNext]_vars
    /\ WF_vars(CheckSeed) /\ WF_vars(BfsLoop) /\ WF_vars(CheckReturn)

(* ------------------------------------------------------------- MainSpec *)
RX_VALUES == {-128, 0, 127}
R2_VALUES == {0, 128, 255}
\* clock ticks between two samples of time.time()
DT_VALUES == 0 .. KEY_COOLDOWN + 1

\* main() after pygame.init(), before ControllerManager()
MainInit ==
    /\ width = 0 /\ height = 0 /\ grid = NoGrid
    /\ call = "none"
    /\ q = <<>> /\ head = 0 /\ percolates = FALSE
    /\ p = 0
    /\ is_percolated = FALSE
    /\ pc = "start"
    /\ MainUnset
    /\ updated = FALSE /\ checks = 0
    /\ grid_in = NoGrid

\* controller = ControllerManager() succeeds
ControllerFound ==
    /\ pc = "start"
    /\ ds' = [NoDevice EXCEPT !.state = "open"]
    /\ pc' = "construct"
    /\ UNCHANGED <<sysvars, p, is_percolated, hist>>
    /\ UNCHANGED <<running, lower_bound, upper_bound, critical_point, selected_bound_idx,
                   key_cooldown_time, last_cross_state, screen, frames>>

\* ControllerManager() raises ConnectionError
ControllerNotFound ==
    /\ pc = "start"
    /\ pc' = "error"
    /\ running' = TRUE
    /\ UNCHANGED <<sysvars, p, is_percolated, hist>>
    /\ UNCHANGED <<lower_bound, upper_bound, critical_point, selected_bound_idx,
                   key_cooldown_time, last_cross_state, ds, screen, frames>>

\* one iteration of the error loop: the events, then the message
ErrorFrame ==
    /\ pc = "error"
    /\ \E quit \in BOOLEAN :
          /\ running' = ~quit
          /\ pc' = IF quit THEN AfterErrorLoop ELSE "error"
    /\ screen' = "error_text"
    /\ UNCHANGED <<sysvars, p, is_percolated, hist>>
    /\ UNCHANGED <<lower_bound, upper_bound, critical_point, selected_bound_idx,
                   key_cooldown_time, last_cross_state, ds, frames>>

\* perc_system = PercolationSystem(GRID_WIDTH, GRID_HEIGHT) and main's variables
Construct ==
    /\ pc = "construct"
    /\ width' = GRID_WIDTH /\ height' = GRID_HEIGHT
    /\ grid' = Zeros(GRID_WIDTH, GRID_HEIGHT)
    /\ running' = TRUE
    /\ p' = 0
    /\ is_percolated' = FALSE
    /\ lower_bound' = 0 /\ upper_bound' = ONE /\ critical_point' = 0
    /\ selected_bound_idx' = 0
    /\ key_cooldown_time' = -1
    /\ last_cross_state' = FALSE
    /\ pc' = "events"
    /\ UNCHANGED <<call, q, head, percolates, ds, screen, frames, hist>>

\* the top of a frame: now_time, the events, the keys and the d-pad
FrameEvents ==
    /\ pc = "events"
    /\ frames < MaxFrames
    /\ frames' = frames + 1
    /\ \E quit, up, down \in BOOLEAN, dt \in DT_VALUES :
          LET left == key_cooldown_time - dt
              open == left < 0
          IN /\ running' = IF quit THEN FALSE ELSE running
             /\ selected_bound_idx' =
                   IF open /\ up THEN (selected_bound_idx - 1 + 3) % 3
                   ELSE IF open /\ down THEN (selected_bound_idx + 1) % 3
                   ELSE selected_bound_idx
             /\ key_cooldown_time' =
                   IF open /\ (up \/ down) THEN KEY_COOLDOWN ELSE Max(left, -1)
    /\ pc' = "controller"
    /\ UNCHANGED <<sysvars, p, is_percolated, hist>>
    /\ UNCHANGED <<lower_bound, upper_bound, critical_point, last_cross_state, ds, screen>>

\* the cross button, the right stick, and p from the R2 trigger
FrameController ==
    /\ pc = "controller"
    /\ \E cross_is_pressed \in BOOLEAN, rx_value \in RX_VALUES, r2_value \in R2_VALUES :
          LET b0 == [lower |-> lower_bound, upper |-> upper_bound, critical |-> critical_point]
              b1 == IF cross_is_pressed /\ ~last_cross_state
                    THEN CrossPress(b0, selected_bound_idx, p) ELSE b0
              b2 == StickAdjust(b1, selected_bound_idx, Change(rx_value))
          IN /\ lower_bound' = b2.lower
             /\ upper_bound' = b2.upper
             /\ critical_point' = b2.critical
             /\ last_cross_state' = cross_is_pressed
             /\ p' = ComputeP(b2, r2_value)
    /\ pc' = "simulate"
    /\ UNCHANGED <<sysvars, is_percolated, hist>>
    /\ UNCHANGED <<running, selected_bound_idx, key_cooldown_time, ds, screen, frames>>

\* update_grid(p), check_percolation(), the feedback and the drawing
FrameSimulate ==
    /\ pc = "simulate"
    /\ \E random_grid \in [Cells(width, height) -> RandVals] :
          LET g == update_grid(random_grid, p)
              s == check_percolation(g, width, height)
          IN /\ grid' = s.grid
             /\ is_percolated' = s.percolates
             /\ grid_in' = g
             /\ ds' = set_percolation_feedback(ds, s.percolates, p, lower_bound,
                                               upper_bound, critical_point)
    /\ updated' = TRUE /\ checks' = 1
    /\ screen' = "grid"
    /\ pc' = IF running THEN "events" ELSE "close"
    /\ UNCHANGED <<width, height, call, q, head, percolates, p>>
    /\ UNCHANGED <<running, lower_bound, upper_bound, critical_point, selected_bound_idx,
                   key_cooldown_time, last_cross_state, frames>>

\* controller.close(); pygame.quit()
Close ==
    /\ pc = "close"
    /\ ds' = [ds EXCEPT !.state = "closed"]
    /\ pc' = "exit"
    /\ UNCHANGED <<sysvars, p, is_percolated, hist>>
    /\ UNCHANGED <<running, lower_bound, upper_bound, critical_point, selected_bound_idx,
                   key_cooldown_time, last_cross_state, screen, frames>>

MainNext ==
    \/ ControllerFound \/ ControllerNotFound \/ ErrorFrame \/ Construct
    \/ FrameEvents \/ FrameController \/ FrameSimulate \/ Close

MainSpec == MainInit /\ [][MainNext]_vars

(* ------------------------------------------- properties of the lattice *)
\* 4-connectivity, stated on coordinates rather than by the list of directions
Abs(n) == IF n < 0 THEN 0 - n ELSE n
Adjacent(a, b) == Abs(a[1] - b[1]) + Abs(a[2] - b[2]) = 1

\* The least set holding S and closed under stepping to an adjacent cell of Occ.
RECURSIVE Grow(_, _)
Grow(S, Occ) ==
    LET N == {c \in Occ \ S : \E s \in S : Adjacent(s, c)}
    IN IF N = {} THEN S ELSE Grow(S \cup N, Occ)

\* The seed's cluster in grid g: the seed and the OCCUPIED cells joined to it.
Cluster(g, h) == Grow({SeedCell(h)}, {c \in DOMAIN g : g[c] = OCCUPIED})

EmptyOrOccupied(g) == \A c \in DOMAIN g : g[c] \in {EMPTY, OCCUPIED}

AllCells == Cells(width, height)

\* check_percolation has returned and nothing has touched the grid since
Returned == call = "none" /\ grid_in # NoGrid

\* update_grid has returned and nothing has touched the grid since
Regenerated == call = "none" /\ updated /\ grid_in = NoGrid

\* the loop of check_percolation has just ended; the return is next
AtReturn == call = "bfs" /\ ~(head < Len(q))

NoDuplicates(s) == \A i, j \in 1 .. Len(s) : s[i] = s[j] => i = j

RightColumnPercolated == \E y \in 0 .. height - 1 : grid[<<width - 1, y>>] = PERCOLATED

\* C1: after check_percolation on a grid of Empty and Occupied cells, the
\* Percolated cells are exactly the seed and the Occupied cells joined to it by
\* a 4-connected path of Occupied cells; every other cell is as it was.
C1_ClusterMarked ==
    (Returned /\ EmptyOrOccupied(grid_in)) =>
        \A c \in AllCells :
            IF c \in Cluster(grid_in, height)
            THEN grid[c] = PERCOLATED
            ELSE grid[c] = grid_in[c]

\* an Occupied cell touches the cluster only diagonally and stays Occupied
C1_Witness ==
    /\ Returned /\ EmptyOrOccupied(grid_in)
    /\ Cardinality(Cluster(grid_in, height)) >= 3
    /\ \E c \in AllCells, d \in Cluster(grid_in, height) :
          /\ grid[c] = OCCUPIED
          /\ Abs(c[1] - d[1]) = 1 /\ Abs(c[2] - d[2]) = 1

\* C2: the flag is true iff a cell of column width-1 was dequeued, which is
\* iff some cell of that column is Percolated after the call.
C2_FlagIffRightEdge ==
    /\ call = "bfs" => (percolates <=> \E i \in 1 .. head : q[i][1] = width - 1)
    /\ AtReturn => (percolates <=> RightColumnPercolated)
    /\ Returned => (is_percolated <=> RightColumnPercolated)

\* the right edge has been reached and the search goes on
C2_Witness == call = "bfs" /\ percolates /\ head < Len(q) /\ width > 1

\* C3 (as claimed): a second check with no update in between ends with the same
\* grid and the same flag, and its reset step gives back the grid the first
\* check was entered with.
C3_SameResult == (AtReturn /\ checks >= 1) => (grid = grid_in /\ percolates = is_percolated)

C3_ResetUndoes == (call = "none" /\ call' = "seed" /\ checks = 1) => grid' = grid_in

\* C3 as claimed: the same result both times, and the reset exactly undoes the marking.
C3_Original == []C3_SameResult /\ [][C3_ResetUndoes]_vars

\* C3 (amended): the same grid and flag; the reset gives back the first check's
\* entry grid at every cell but the seed, which comes back Occupied whatever it was.
C3_ResetUndoesButSeed ==
    (call = "none" /\ call' = "seed" /\ checks = 1) =>
        \A c \in AllCells :
            IF c = SeedCell(height) THEN grid'[c] = OCCUPIED ELSE grid'[c] = grid_in[c]

\* C3 amended: the same result both times, and the reset undoes the marking up to the seed.
C3_Idempotent == []C3_SameResult /\ [][C3_ResetUndoesButSeed]_vars

\* a second check is about to return, on a grid where the first one marked a cluster
C3_Witness ==
    /\ AtReturn /\ checks >= 1 /\ percolates
    /\ Cardinality({c \in AllCells : grid[c] = PERCOLATED}) >= 3
    /\ \E c \in AllCells : grid[c] = EMPTY

\* C4: after check_percolation the seed cell is Percolated, whatever it was.
C4_SeedPercolated == Returned => grid[SeedCell(height)] = PERCOLATED

\* update_grid left the seed Empty and the check has run
C4_Witness == Returned /\ updated /\ grid_in[SeedCell(height)] = EMPTY /\ width > 1

\* C5: with p = 1 update_grid leaves every cell Occupied, and the check then
\* marks every cell Percolated and returns true.
C5_FullGrid ==
    /\ (Regenerated /\ p = ONE) => \A c \in AllCells : grid[c] = OCCUPIED
    /\ (Returned /\ updated /\ p = ONE) =>
          (is_percolated /\ \A c \in AllCells : grid[c] = PERCOLATED)

C5_Witness == Returned /\ updated /\ p = ONE /\ checks = 1 /\ width >= 2 /\ height >= 2

\* C6: with p = 0 update_grid leaves every cell Empty, and the check then
\* marks the seed alone and returns false unless width = 1.
C6_EmptyGrid ==
    /\ (Regenerated /\ p = 0) => \A c \in AllCells : grid[c] = EMPTY
    /\ (Returned /\ updated /\ p = 0) =>
          /\ \A c \in AllCells :
                grid[c] = IF c = SeedCell(height) THEN PERCOLATED ELSE EMPTY
          /\ is_percolated <=> width = 1

C6_Witness == Returned /\ updated /\ p = 0 /\ checks = 1 /\ width >= 2 /\ height >= 2

\* C7: on a grid of width 1 check_percolation returns true.
C7_WidthOne == (Returned /\ width = 1) => is_percolated

C7_Witness == Returned /\ updated /\ width = 1 /\ height >= 2 /\ grid_in[SeedCell(height)] = EMPTY

\* C8: once ControllerManager() has failed, main() shows the error message until
\* a quit event and does nothing else: no grid, no update_grid, no
\* check_percolation, nothing written to a device, no variable of the frame
\* loop touched, and no way back into the frame loop.
C8_ErrorPath == pc \in {"error", "error_exit"}

C8_DisplayOnly ==
    /\ C8_ErrorPath =>
          /\ width = 0 /\ height = 0 /\ grid = NoGrid
          /\ ~updated /\ checks = 0 /\ grid_in = NoGrid /\ call = "none"
          /\ ds = NoDevice
          /\ frames = 0
          /\ screen \in {"blank", "error_text"}
          /\ p = 0 /\ ~is_percolated
          /\ lower_bound = 0 /\ upper_bound = 0 /\ critical_point = 0
          /\ selected_bound_idx = 0 /\ ~last_cross_state
    /\ (pc = "error" /\ screen = "error_text") => running
    /\ pc = "error_exit" => (~running /\ screen = "error_text")

C8_NoWayBack == C8_ErrorPath => (C8_ErrorPath' /\ (pc = "error_exit" => UNCHANGED vars))

\* C8: the error path is display-only in every state, and no step leaves it.
C8_ErrorState == []C8_DisplayOnly /\ [][C8_NoWayBack]_vars

\* the error loop has gone round and then ended on a quit event
C8_Witness == pc = "error_exit" /\ screen = "error_text" /\ ~running

\* C9: no cell is queued twice, a cell is queued only by the step that turns it
\* from Occupied to Percolated, the queue never outgrows the grid, and the search
\* ends, with the queue exhausted.
C9_QueueBounded ==
    /\ NoDuplicates(q)
    /\ Len(q) <= width * height
    /\ head <= Len(q)
    /\ \A i \in 1 .. Len(q) : grid[q[i]] = PERCOLATED

C9_QueuedOnMarking ==
    (call = "bfs" /\ call' = "bfs") =>
        \A i \in Len(q) + 1 .. Len(q') : grid[q'[i]] = OCCUPIED /\ grid'[q'[i]] = PERCOLATED

C9_ExhaustedAtReturn == (call = "bfs" /\ call' = "none") => head = Len(q)

\* C9: the queue stays duplicate-free and bounded, cells are queued only when
\* marked, the return finds the queue exhausted, and every started search returns.
C9_Terminates ==
    /\ []C9_QueueBounded
    /\ [][C9_QueuedOnMarking]_vars
    /\ [][C9_ExhaustedAtReturn]_vars
    /\ (call = "bfs" ~> call = "none")

\* every cell of a grid of six or more cells has been queued and dequeued
C9_Witness == call = "bfs" /\ head = Len(q) /\ Len(q) = width * height /\ Len(q) >= 6

\* C10 (as claimed): 0 <= lower_bound <= upper_bound <= 1 and
\* 0 <= critical_point <= 1 always, and lower_bound <= p <= upper_bound whenever
\* update_grid(p) is called.
C10_BoundsOrdered ==
    /\ 0 <= lower_bound /\ lower_bound <= upper_bound /\ upper_bound <= ONE
    /\ 0 <= critical_point /\ critical_point <= ONE

\* C10 as claimed: the bounds are ordered within [0, 1] and p lies between them at the call.
C10_Original ==
    /\ C10_BoundsOrdered
    /\ pc = "simulate" => (lower_bound <= p /\ p <= upper_bound)

\* C10 (amended): the bounds as claimed, and lower_bound <= p <= 1 whenever
\* update_grid(p) is called; p is above upper_bound by at most one rounding step.
C10_PWithinUnit ==
    /\ C10_BoundsOrdered
    /\ pc = "simulate" =>
          /\ lower_bound <= p /\ p <= ONE
          /\ p <= upper_bound + Ulp(upper_bound)

\* update_grid is about to be called with all three values moved and p between the bounds
C10_Witness ==
    /\ pc = "simulate"
    /\ 0 < lower_bound /\ lower_bound < p /\ p < upper_bound /\ upper_bound < ONE
    /\ 0 < critical_point

=============================================================================
